---- MODULE Spec2Model ----
(***************************************************************************)
(* Batch rendering session of obsidian-webpage-export                      *)
(* (src/src/plugin/render-api/render-api.ts).                              *)
(*                                                                         *)
(* The module-level state of _MarkdownRendererInternal and ExportLog is    *)
(* the state of the machine.  JavaScript runs one task at a time, so an    *)
(* action is the code that runs between two suspension points (await) of   *)
(* the one render call in flight, a synchronous API call, or an event      *)
(* handler of the host (the render window's "close" event, a timer tick).  *)
(* Code is written as functions from a record of the module state to a     *)
(* record of the module state, composed in the order the source runs them. *)
(***************************************************************************)
EXTENDS Integers, Sequences, FiniteSets, TLC

\* ------------------------------------------------------------- bounds
\* Render leaves (tabs) that TabManager.openNewTab may hand out in one run.
MaxLeaves == 2
\* Timer ticks after which a polling wait gives up (the source's 2000, 500
\* and 100 ticks are cut to this many; a wait reads nothing but the tick
\* on which its time is up).
MaxTicks == 1
\* Fatal error reports whose deferred part has not run yet.
MaxPending == 1
\* Sections of a markdown document.
MaxSections == 2
\* Largest timeout and interval of a waitUntil call taken on its own.
MaxWaitTimeout == 5
MaxWaitInterval == 3
\* Nodes of a canvas.
MaxNodes == 2
\* Lines of ExportLog.fullLog when the log is kept whole (LogSpec).
MaxLog == 3
\* Entries Path has queued for the log when a function of ExportLog is called.
MaxPathLogs == 1
\* Sibling blocks of a document given to makeHeadingsTrees.
MaxBlocks == 4
\* Deepest heading tag of those blocks (h1 .. h<MaxHeadingLevel>).
MaxHeadingLevel == 2
\* getWebpageData calls of the exported site whose fetch has not settled.
MaxInFlight == 2

\* --------------------------------------------------- program constants
RenderTimeout == 2000
RenderInterval == 1
SettleTimeout == 500
ReportTimeout == 100
ReportInterval == 10

Leaves == 1..MaxLeaves
\* Settings.logLevel; the source compares it with "all", "warning" and
\* "error" only, "none" stands for every other value.
LogLevels == {"all", "warning", "error", "none"}
\* The session reads the level in ExportLog.error only, which tells "error",
\* "warning" and "all" from every other value: one level of each kind.
SessionLevels == {"all", "none"}
\* Kinds of file handed to renderFile: a viewable media extension, a file
\* whose view type is "markdown", a file with any other view type.
Files == {"media", "md", "other"}

VARIABLES
    batchStarted,      \* _MarkdownRendererInternal.batchStarted
    cancelled,         \* _MarkdownRendererInternal.cancelled
    errorInBatch,      \* _MarkdownRendererInternal.errorInBatch
    renderLeaf,        \* the render leaf (0: undefined)
    electronWindow,    \* the host window of the leaf (0: undefined)
    loadingContainer,  \* the leaf whose progress wrapper it names (0: undefined)
    callLog,           \* the lines appended to ExportLog.fullLog since the last
                       \* API call began (fullLog itself only grows)
    progress,          \* the message shown by the last progress wrapper created
    pendingReports,    \* _reportError calls suspended at their await (fatal ones)
    closeHandlers,     \* windows with a subscribed windowClosed handler
    leafCount,         \* leaves opened so far
    parent,            \* renderLeaf.parent (and its parent) is defined; a leaf is
                       \* read through renderLeaf only: FALSE once that is undefined
    detachCount,       \* calls of detach() on the leaf opened last (no reference
                       \* to an older leaf is left)
    wrapper,           \* the window of renderLeaf holds .html-progress-wrapper
    logLevel,          \* Settings.logLevel
    settingsLoaded,    \* SettingsPage.loaded
    sections,          \* sections of each markdown document of this run
    exportCancelled,   \* history: windowClosed set cancelled, no explicit beginBatch since
    batchOpener,       \* history: the API call that opened the last batch
    docFailed,         \* history: a document failed to load or render in this batch
    fatalInBatch,      \* history: a fatal error was reported in this batch
    unfolded,          \* a callout the render unfolded is still unfolded
    other,             \* a second API call in flight, suspended (OverlapSpec)
    call,              \* the API call in flight and where it is suspended
    ret,               \* what an API call returned in the last step (none: nothing)
    wait,              \* a waitUntil call taken on its own (WaitSpec)
    canvas,            \* the node loop of renderCanvas taken on its own (CanvasSpec)
    wholeLog,          \* callLog is kept whole: it is fullLog itself (LogSpec)
    doc,               \* makeHeadingsTrees taken on its own (HeadingSpec)
    post,              \* postProcessHTML taken on its own (PostSpec)
    opts,              \* the options of an entry point taken on their own (OptionsSpec)
    twin,              \* the session run at every verbosity at once (VerbositySpec)
    site               \* ObsidianWebsite.cachedMetadata and the getWebpageData calls in flight

vars == <<batchStarted, cancelled, errorInBatch, renderLeaf, electronWindow,
          loadingContainer, callLog, progress, pendingReports, closeHandlers,
          leafCount, parent, detachCount, wrapper, logLevel, settingsLoaded, sections,
          exportCancelled, batchOpener, docFailed, fatalInBatch, unfolded, other, call, ret, wait,
          canvas, wholeLog, doc, post, opts, twin, site>>

\* The variables of the functions taken on their own: the session leaves
\* them alone.
benchVars == <<wait, canvas, wholeLog, doc, post, opts, twin, site>>

\* The module state as one record, and its write-back.
Cur ==
    [batchStarted |-> batchStarted, cancelled |-> cancelled,
     errorInBatch |-> errorInBatch, renderLeaf |-> renderLeaf,
     electronWindow |-> electronWindow, loadingContainer |-> loadingContainer,
     callLog |-> callLog, progress |-> progress,
     pendingReports |-> pendingReports, closeHandlers |-> closeHandlers,
     leafCount |-> leafCount, parent |-> parent, detachCount |-> detachCount,
     wrapper |-> wrapper, exportCancelled |-> exportCancelled,
     batchOpener |-> batchOpener, docFailed |-> docFailed,
     fatalInBatch |-> fatalInBatch, unfolded |-> unfolded]

\* The module state as a step finds it: when no API call is in flight, the
\* lines it appends are new.
Fresh == [Cur EXCEPT !.callLog = IF call.pc = "idle" /\ ~wholeLog THEN <<>> ELSE @]

Set(m) ==
    /\ Len(m.pendingReports) <= MaxPending
    /\ wholeLog => Len(m.callLog) <= MaxLog
    /\ batchStarted' = m.batchStarted
    /\ cancelled' = m.cancelled
    /\ errorInBatch' = m.errorInBatch
    /\ renderLeaf' = m.renderLeaf
    /\ electronWindow' = m.electronWindow
    /\ loadingContainer' = m.loadingContainer
    /\ callLog' = m.callLog
    /\ progress' = m.progress
    /\ pendingReports' = m.pendingReports
    /\ closeHandlers' = m.closeHandlers
    /\ leafCount' = m.leafCount
    /\ parent' = m.parent
    /\ detachCount' = m.detachCount
    /\ wrapper' = m.wrapper
    /\ exportCancelled' = m.exportCancelled
    /\ batchOpener' = m.batchOpener
    /\ docFailed' = m.docFailed
    /\ fatalInBatch' = m.fatalInBatch
    /\ unfolded' = m.unfolded
    /\ UNCHANGED <<logLevel, settingsLoaded, sections, other>>
    /\ UNCHANGED benchVars

Min(a, b) == IF a <= b THEN a ELSE b

\* ------------------------------------------------------------ ExportLog

Entry(level, msg) == [level |-> level, msg |-> msg]

\* fullLog += logToString(message, messageTitle)
appendLog(m, level, msg) == [m EXCEPT !.callLog = Append(@, Entry(level, msg))]

\* renderLeaf && renderLeaf.parent && renderLeaf.parent.parent
leafAttached(m) == m.renderLeaf # 0 /\ m.parent

\* A routing that shows an entry at the level of its own name only.
emittedOwnLevel(kind, loaded, level) ==
    CASE kind = "log"     -> ~(loaded /\ level # "all")
      [] kind = "warning" -> ~(loaded /\ level # "warning")
      [] kind = "error"   -> ~(loaded /\ level # "error")
      [] OTHER            -> TRUE

\* The entry of a call of log / warning / error (fatal: error with fatal
\* set) goes on to the console and to _reportInfo / _reportWarning /
\* _reportError: the early return after the append is not taken.
emitted(kind, loaded, level) ==
    CASE kind = "log"     -> ~(loaded /\ level # "all")
      [] kind = "warning" -> ~(loaded /\ level \notin {"warning", "all"})
      [] kind = "error"   -> ~(loaded /\ level \notin {"error", "warning", "all"})
      [] OTHER            -> TRUE

\* _reportError up to its await: marks the batch, then waits for the leaf.
\* Only the deferred part of a fatal report writes module state, so only
\* fatal reports are kept pending.
reportError(m, fatal) ==
    IF ~m.batchStarted THEN m
    ELSE LET m1 == [m EXCEPT !.errorInBatch = TRUE]
         IN  IF fatal
             THEN [m1 EXCEPT !.fatalInBatch = TRUE,
                             !.pendingReports =
                       Append(@, [found |-> leafAttached(m1), timer |-> 0])]
             ELSE m1

\* A warning that is reported like a non-fatal error.
warningReported(m, msg) == reportError(appendLog(m, "WARNING", msg), FALSE)

\* A log that keeps only the lines the verbosity lets through.
logIfShown(m, msg) ==
    IF settingsLoaded /\ logLevel # "all" THEN m ELSE appendLog(m, "INFO", msg)

\* ExportLog.log: appended whatever the level; _reportInfo writes the widget only.
log(m, msg) == appendLog(m, "INFO", msg)

\* ExportLog.warning
warning(m, msg) == appendLog(m, "WARNING", msg)

\* ExportLog.error with SettingsPage.loaded and Settings.logLevel as given.
errorAt(m, msg, fatal, loaded, level) ==
    LET m1 == appendLog(m, IF fatal THEN "FATAL ERROR" ELSE "ERROR", msg)
    IN  IF ~emitted(IF fatal THEN "fatal" ELSE "error", loaded, level)
        THEN m1
        ELSE reportError(m1, fatal)

\* ExportLog.error
error(m, msg, fatal) == errorAt(m, msg, fatal, settingsLoaded, logLevel)

\* _reportProgress: needs an active batch, an attached leaf and the wrapper.
reportProgress(m, msg) ==
    IF ~m.batchStarted THEN m
    ELSE IF ~leafAttached(m) THEN m
    ELSE IF ~m.wrapper THEN m
    ELSE [m EXCEPT !.progress = msg]

\* ---------------------------------------------------------- the session

\* renderLeaf.detach()
detach(m) ==
    [m EXCEPT !.detachCount = @ + 1, !.parent = FALSE]

\* renderLeaf = undefined
noLeaf(m) == [m EXCEPT !.renderLeaf = 0, !.parent = FALSE, !.wrapper = FALSE]

\* endBatch, the branch on renderLeaf: the window is closed, or left open
\* when an error was reported in the batch.
closeOrLeave(m) ==
    IF m.renderLeaf = 0 THEN m
    ELSE IF ~m.errorInBatch
    THEN detach(log(m, "Closing render window"))
    ELSE reportProgress(warning(m, "Error in batch, leaving render window open"),
                        "Completed with errors")

\* Last lines of endBatch that keep the handles of the leaf and its window.
clearSessionKeepsLeaf(m) ==
    [m EXCEPT !.loadingContainer = 0, !.batchStarted = FALSE,
              !.fatalInBatch = FALSE]

\* endBatch, its last lines: the session's fields are cleared.
clearSession(m) ==
    [noLeaf(m) EXCEPT !.electronWindow = 0, !.loadingContainer = 0,
                      !.batchStarted = FALSE, !.fatalInBatch = FALSE]

\* A variant of endBatch that keeps the session when it leaves the window open.
endBatchKeepsErrored(m) ==
    IF ~m.batchStarted THEN m
    ELSE IF m.renderLeaf # 0 /\ m.errorInBatch THEN closeOrLeave(m)
    ELSE clearSession(closeOrLeave(m))

endBatch(m) ==
    IF ~m.batchStarted THEN m
    ELSE clearSession(closeOrLeave(m))

\* A variant of checkCancelled that reads the flag only.
checkCancelledFlagOnly(m) ==
    IF m.cancelled
    THEN [m |-> endBatch(log(m, "cancelled")), val |-> TRUE]
    ELSE [m |-> m, val |-> FALSE]

\* A variant of checkCancelled that clears the flag it has acted upon.
checkCancelledConsumesFlag(m) ==
    IF m.cancelled \/ m.renderLeaf = 0
    THEN [m |-> [endBatch(log(m, "cancelled")) EXCEPT !.cancelled = FALSE],
          val |-> TRUE]
    ELSE [m |-> m, val |-> FALSE]

\* Returns the module state after the call and the value returned.
checkCancelled(m) ==
    IF m.cancelled \/ m.renderLeaf = 0
    THEN [m |-> endBatch(log(m, "cancelled")), val |-> TRUE]
    ELSE [m |-> m, val |-> FALSE]

\* A variant of failRender that ends the batch with the failed document.
failRenderEndsBatch(m) ==
    LET cc == checkCancelled(m)
    IN  IF cc.val THEN cc.m ELSE endBatch(error(m, "Rendering failed", FALSE))

\* failRender returns undefined on both paths; this is its effect.
failRender(m) ==
    LET cc == checkCancelled(m)
    IN  IF cc.val THEN cc.m ELSE error(m, "Rendering failed", FALSE)

\* A handler that sets the flag and leaves the batch to the next check.
windowClosedFlagOnly(m, w) ==
    IF m.cancelled THEN m
    ELSE [m EXCEPT !.cancelled = TRUE, !.exportCancelled = TRUE]

\* The windowClosed handler subscribed by beginBatch.
windowClosed(m, w) ==
    IF m.cancelled THEN m
    ELSE LET m1 == endBatch(m)
         IN  [m1 EXCEPT !.cancelled = TRUE, !.exportCancelled = TRUE,
                        !.closeHandlers =
                            IF m1.electronWindow = w THEN @ \ {w} ELSE @]

\* ------------------------------------------------------------- waitUntil

\* The time after which a wait gives up, cut to MaxTicks ticks.
PollTimeout(timeout, interval) == Min(timeout, MaxTicks * interval)

\* One evaluation of waitUntil's condition: the synchronous one of the call
\* (first) or the one of a timer tick.  "true"/"false": the promise resolves;
\* "wait": the interval timer is (still) running.
\* A variant of poll that gives up only past the timeout.
pollStrict(cond, first, timer, timeout, interval) ==
    IF cond THEN "true"
    ELSE IF first THEN "wait"
    ELSE IF timer + interval > timeout THEN "false"
    ELSE "wait"

poll(cond, first, timer, timeout, interval) ==
    IF cond THEN "true"
    ELSE IF first THEN "wait"
    ELSE IF timer + interval >= timeout THEN "false"
    ELSE "wait"

\* waitUntil as the session calls it: its timeout cut to MaxTicks ticks.
waitUntil(cond, first, timer, timeout, interval) ==
    poll(cond, first, timer, PollTimeout(timeout, interval), interval)

\* A condition of the shape  flag || checkCancelled() .
orCancelled(m, flag) ==
    IF flag THEN [m |-> m, val |-> TRUE] ELSE checkCancelled(m)

\* ------------------------------------------------- the API call in flight

\* leaf: the render leaf the call found or opened.
\* seen: the flags of section sec that a wait has read as true.
Idle == [op |-> "none", pc |-> "idle", lone |-> FALSE, file |-> "none",
         timer |-> 0, sec |-> 0, leaf |-> 0, seen |-> {}]

NoRet == [op |-> "none", val |-> "none", why |-> "none", lone |-> FALSE,
          file |-> "none", leaf |-> 0]

\* The call returns val to its caller (why: the path it took).
Return(m, c, val, why) ==
    [m |-> IF why \in {"load", "timeout"}
           THEN [m EXCEPT !.docFailed = TRUE] ELSE m,
     call |-> Idle,
     ret |-> [op |-> c.op, val |-> val, why |-> why, lone |-> c.lone,
              file |-> c.file, leaf |-> c.leaf]]

\* The call is suspended at the await named pc.
Suspend(m, c, pc) ==
    [m |-> m, call |-> [c EXCEPT !.pc = pc, !.timer = 0], ret |-> NoRet]

\* The call stays in the polling wait named pc; a tick adds interval to timer.
KeepWaiting(m, c, first, pc, interval) ==
    [m |-> m,
     call |-> [c EXCEPT !.pc = pc, !.timer = IF first THEN 0 ELSE @ + interval],
     ret |-> NoRet]

\* return failRender(file, message)
FailReturn(m, c, why) ==
    Return(failRender(m), c, "absent",
           IF checkCancelled(m).val THEN "cancelled" ELSE why)

\* A render that ends the batch on success, whoever opened it.
FinishEndsBatch(m, c, html, why) ==
    LET cc == checkCancelled(m)
    IN  IF cc.val THEN Return(cc.m, c, "absent", "cancelled")
        ELSE IF ~html THEN FailReturn(m, c, why)
        ELSE Return(endBatch(m), c, "result", "ok")

\* renderFile / renderMarkdown once the view's renderer has returned html
\* (TRUE) or undefined (FALSE).
Finish(m, c, html, why) ==
    LET cc == checkCancelled(m)
    IN  IF cc.val THEN Return(cc.m, c, "absent", "cancelled")
        ELSE IF ~html THEN FailReturn(m, c, why)
        ELSE Return(IF c.lone THEN endBatch(m) ELSE m, c, "result", "ok")

\* ----------------------------------------------------- renderMarkdownView

\* After the wait for generic plugins of section c.sec resolved with w.
MdAfterPlugin(m, c, w) ==
    LET cc == checkCancelled(m)
    IN  IF cc.val THEN Finish(cc.m, c, FALSE, "cancelled")
        ELSE LET m1 == IF w = "false"
                       THEN warning(m, "Plugin element not rendered correctly")
                       ELSE m
             IN  IF c.sec < sections
                 THEN Suspend(m1, [c EXCEPT !.sec = @ + 1, !.seen = {}], "md_render")
                 ELSE Suspend(m1, c, "md_all")

\* waitUntil(() => no empty plugin block || checkCancelled(), 500, 1)
MdPluginWait(m, c, flag, first) ==
    LET p == orCancelled(m, flag)
        w == waitUntil(p.val, first, c.timer, SettleTimeout, RenderInterval)
    IN  IF w = "wait" THEN KeepWaiting(p.m, c, first, "md_plugin", RenderInterval)
        ELSE MdAfterPlugin(p.m, c, w)

\* After the wait for transclusions resolved with w; flag2 is the first
\* evaluation of the plugin wait's own flag.
MdAfterTranscl(m, c, w, flag2) ==
    LET cc == checkCancelled(m)
    IN  IF cc.val THEN Finish(cc.m, c, FALSE, "cancelled")
        ELSE MdPluginWait(IF w = "false"
                          THEN warning(m, "Transclusions were not rendered correctly")
                          ELSE m,
                          [c EXCEPT !.timer = 0], flag2, TRUE)

\* waitUntil(() => no empty sizer || checkCancelled(), 500, 1)
MdTransclWait(m, c, flag, flag2, first) ==
    LET p == orCancelled(m, flag)
        w == waitUntil(p.val, first, c.timer, SettleTimeout, RenderInterval)
    IN  IF w = "wait" THEN KeepWaiting(p.m, c, first, "md_transcl", RenderInterval)
        ELSE MdAfterTranscl(p.m, c, w, flag2)

\* A computed wait that goes on with the section on a timeout.
MdComputedWaitGoesOn(m, c, flag, first) ==
    LET p == orCancelled(m, flag)
        w == waitUntil(p.val, first, c.timer, RenderTimeout, RenderInterval)
    IN  IF w = "wait" THEN KeepWaiting(p.m, c, first, "md_computed", RenderInterval)
        ELSE Suspend(p.m, [c EXCEPT !.seen = IF flag THEN @ \cup {"computed"} ELSE @],
                     "md_post")

\* waitUntil(() => section.computed || checkCancelled(), 2000, 1)
MdComputedWait(m, c, flag, first) ==
    LET p == orCancelled(m, flag)
        w == waitUntil(p.val, first, c.timer, RenderTimeout, RenderInterval)
    IN  IF w = "wait" THEN KeepWaiting(p.m, c, first, "md_computed", RenderInterval)
        ELSE IF w = "false" THEN Finish(failRender(p.m), c, FALSE, "timeout")
        ELSE Suspend(p.m, [c EXCEPT !.seen = IF flag THEN @ \cup {"computed"} ELSE @],
                     "md_post")

\* A rendered wait that gives the section up on a timeout and renders the next.
MdRenderedWaitSkips(m, c, flag, first) ==
    LET p == orCancelled(m, flag)
        w == waitUntil(p.val, first, c.timer, RenderTimeout, RenderInterval)
    IN  IF w = "wait" THEN KeepWaiting(p.m, c, first, "md_rendered", RenderInterval)
        ELSE IF w = "false"
        THEN Suspend(warning(p.m, "Failed to render section!"), c, "md_render")
        ELSE Suspend(p.m, [c EXCEPT !.seen = IF flag THEN @ \cup {"rendered"} ELSE @],
                     "md_measure")

\* waitUntil(() => (section.el && section.rendered) || checkCancelled(), 2000, 1)
MdRenderedWait(m, c, flag, first) ==
    LET p == orCancelled(m, flag)
        w == waitUntil(p.val, first, c.timer, RenderTimeout, RenderInterval)
    IN  IF w = "wait" THEN KeepWaiting(p.m, c, first, "md_rendered", RenderInterval)
        ELSE IF w = "false" THEN Finish(failRender(p.m), c, FALSE, "timeout")
        ELSE Suspend(p.m, [c EXCEPT !.seen = IF flag THEN @ \cup {"rendered"} ELSE @],
                     "md_measure")

\* The unfold/parse awaits returned (parseFails: one of them threw); the
\* first section's render is awaited next.
MdParsed(m, c, parseFails) ==
    LET m1 == [m EXCEPT !.unfolded = FALSE]
    IN  Suspend(IF parseFails
                THEN error(m1, "Failed to unfold or parse renderer!", FALSE)
                ELSE m1,
                [c EXCEPT !.sec = 1], "md_render")

\* ---------------------------------------------------------- renderGeneric

\* After delay(2000).
GenericDelayed(m, c) ==
    LET cc == checkCancelled(m)
    IN  IF cc.val THEN Finish(cc.m, c, FALSE, "cancelled")
        ELSE Finish(m, c, TRUE, "ok")

\* ------------------------------------------- renderFile / renderMarkdown

\* renderFile after  await renderLeaf.openFile(file)  (throws: it threw).
AfterOpen(m, c, throws) ==
    IF throws THEN FailReturn(m, c, "load")
    ELSE IF m.renderLeaf = 0 THEN Return(m, c, "throw", "TypeError")
    ELSE IF c.file = "md" THEN Suspend(m, c, "md_parse")
    ELSE Suspend(m, c, "gen_delay")

\* waitUntil(() => renderLeaf != undefined || checkCancelled(), 2000, 1) and
\* the code up to the next await (throws: view.setViewData threw).
LeafWait(m, c, first, throws) ==
    LET p == orCancelled(m, m.renderLeaf # 0)
        w == waitUntil(p.val, first, c.timer, RenderTimeout, RenderInterval)
    IN  IF w = "wait" THEN KeepWaiting(p.m, c, first, "rf_leaf", RenderInterval)
        ELSE IF w = "false" \/ p.m.renderLeaf = 0 THEN FailReturn(p.m, c, "noleaf")
        ELSE IF c.op = "renderFile" THEN Suspend(p.m, c, "rf_open")
        ELSE IF throws THEN FailReturn(p.m, c, "load")
        ELSE Suspend(p.m, c, "md_parse")

\* ------------------------------------------------------------- beginBatch

\* The ways beginBatch ends by an exception: the Error of line 942, the
\* TypeError of reading renderLeaf.view when renderLeaf is undefined.
Thrown == {"attach_timeout", "TypeError"}

\* beginBatch is over (how: the path it took); its caller goes on.
AfterBeginBatch(m, c, how, throws) ==
    IF c.op = "beginBatch"
    THEN Return(m, c, IF how \in Thrown THEN "throw" ELSE "void", how)
    ELSE IF how \in Thrown THEN Return(m, c, "throw", how)
    ELSE LeafWait(m, [c EXCEPT !.timer = 0, !.leaf = m.renderLeaf], TRUE, throws)

\* beginBatch after its wait resolved with w (win: the leaf's window has an
\* electronWindow).
BeginBatchRest(m, c, w, win, throws) ==
    IF w = "false"
    THEN LET m1 == IF m.renderLeaf # 0 THEN detach(m)
                   ELSE error(m, "Failed to detach render leaf", FALSE)
             cc == checkCancelled(m1)
         IN  IF ~cc.val THEN AfterBeginBatch(m1, c, "attach_timeout", throws)
             ELSE AfterBeginBatch(cc.m, c, "cancelled", throws)
    ELSE IF m.renderLeaf = 0 THEN AfterBeginBatch(m, c, "TypeError", throws)
    ELSE IF ~win
    THEN AfterBeginBatch([noLeaf(m) EXCEPT !.errorInBatch = FALSE,
                                           !.cancelled = FALSE,
                                           !.batchStarted = FALSE,
                                           !.fatalInBatch = FALSE,
                                           !.electronWindow = 0],
                         c, "no_window", throws)
    ELSE AfterBeginBatch([m EXCEPT !.electronWindow = m.renderLeaf,
                                   !.closeHandlers = @ \cup {m.renderLeaf},
                                   !.loadingContainer = m.renderLeaf,
                                   !.wrapper = TRUE,
                                   !.progress = "Generating HTML"],
                         c, "started", throws)

\* waitUntil(() => (renderLeaf && renderLeaf.parent) || checkCancelled(), 2000, 1)
AttachWait(m, c, first, win, throws) ==
    LET p == orCancelled(m, leafAttached(m))
        w == waitUntil(p.val, first, c.timer, RenderTimeout, RenderInterval)
    IN  IF w = "wait" THEN KeepWaiting(p.m, c, first, "bb_attach", RenderInterval)
        ELSE BeginBatchRest(p.m, c, w, win, throws)

\* beginBatch past its guard: a fresh batch starts and a leaf is opened
\* (att: the new leaf comes attached).
startBatch(m, c, att, win, throws) ==
    LET leaf == m.leafCount + 1
        m1 == [m EXCEPT !.errorInBatch = FALSE, !.cancelled = FALSE,
                        !.batchStarted = TRUE, !.loadingContainer = 0,
                        !.leafCount = leaf, !.renderLeaf = leaf,
                        !.parent = att, !.wrapper = FALSE,
                        !.detachCount = 0, !.docFailed = FALSE,
                        !.fatalInBatch = FALSE,
                        !.batchOpener = c.op,
                        !.exportCancelled =
                            IF c.op = "beginBatch" THEN FALSE ELSE @]
    IN  AttachWait(m1, c, TRUE, win, throws)

\* A variant of beginBatch without the guard on batchStarted.
beginBatchUnguarded(m, c, att, win, throws) ==
    startBatch(m, c, att, win, throws)

\* beginBatch from its first line.
beginBatch(m, c, att, win, throws) ==
    IF m.batchStarted THEN AfterBeginBatch(m, c, "no-op", throws)
    ELSE startBatch(m, c, att, win, throws)

\* renderFile past its test for a media file.
renderDocument(m, c, att, win) ==
    LET lone == ~m.batchStarted
        c1 == [c EXCEPT !.lone = lone]
    IN  IF lone
        THEN beginBatch(log(m, "Exporting single file, starting batch"),
                        c1, att, win, FALSE)
        ELSE LeafWait(m, [c1 EXCEPT !.leaf = m.renderLeaf], TRUE, FALSE)

\* A variant of renderFile that renders a media file like any other file.
renderFileNoMediaPage(m, c, att, win) ==
    renderDocument(m, c, att, win)

\* renderFile from its first line; createMediaPage builds the page of a
\* media file in batchDocument and reads nothing of the session.
renderFile(m, c, att, win) ==
    IF c.file = "media" THEN Return(m, c, "result", "attachment")
    ELSE renderDocument(m, c, att, win)

\* renderMarkdown from its first line.
renderMarkdown(m, c, att, win, throws) ==
    LET lone == ~m.batchStarted
        c1 == [c EXCEPT !.lone = lone]
    IN  IF lone
        THEN beginBatch(log(m, "Exporting single file, starting batch"),
                        c1, att, win, throws)
        ELSE LeafWait(m, [c1 EXCEPT !.leaf = m.renderLeaf], TRUE, throws)

\* ---------------------------------------------------------------- actions

Apply(r) ==
    /\ Set(r.m)
    /\ call' = r.call
    /\ ret' = r.ret

\* No function is taken on its own.
NoWait == [timeout |-> 0, interval |-> 0, timer |-> 0, ticks |-> 0,
           state |-> "none", last |-> FALSE, armed |-> FALSE]

WaitIdle == wait = NoWait

NoCanvas == [inlineHTML |-> FALSE, exported |-> {}, nodes |-> <<>>, out |-> <<>>]

CanvasIdle == canvas = NoCanvas

LogIdle == wholeLog = FALSE

\* makeHeadingsTrees is not running.
NoDoc ==
    LET none == [kids |-> <<>>, wrap |-> <<>>, heading |-> <<>>, icons |-> <<>>]
    IN  [state |-> "none", blocks |-> <<>>, tree |-> none, list |-> <<>>,
         i |-> 0, pass |-> 0, built |-> none]

DocIdle == doc = NoDoc

\* postProcessHTML is not running.
NoPost ==
    LET none == [view |-> "none", marked |-> FALSE, extras |-> FALSE,
                 pWithDiv |-> FALSE,
                 input |-> [attr |-> <<>>, value |-> <<>>],
                 tag |-> [href |-> <<>>, dataHref |-> <<>>],
                 img |-> [width |-> "none", styleWidth |-> "", maxWidth |-> ""],
                 frontmatter |-> "none", sizer |-> FALSE, body |-> "held",
                 lazy |-> FALSE, listIcons |-> 0]
    IN  [state |-> "none", runs |-> 0, keepContainer |-> FALSE,
         html |-> none, once |-> none]

PostIdle == post = NoPost

\* No entry point is being called for its options.
OptsIdle ==
    opts = [state |-> "none", entry |-> "none", defaults |-> <<>>, given |-> <<>>,
            caller |-> <<>>, effective |-> <<>>, node |-> <<>>]

\* No session is run at several verbosities.
TwinIdle == twin = <<>>

\* No page data of an exported site is asked for.
SiteIdle == site = <<>>

BenchIdle == WaitIdle /\ CanvasIdle /\ LogIdle /\ DocIdle /\ PostIdle /\ OptsIdle /\ TwinIdle /\ SiteIdle

\* The module state once the module is loaded.
SessionLoaded ==
    /\ batchStarted = FALSE
    /\ cancelled = FALSE
    /\ errorInBatch = FALSE
    /\ renderLeaf = 0
    /\ electronWindow = 0
    /\ loadingContainer = 0
    /\ callLog = <<>>
    /\ progress = "none"
    /\ pendingReports = <<>>
    /\ closeHandlers = {}
    /\ leafCount = 0
    /\ parent = FALSE
    /\ detachCount = 0
    /\ wrapper = FALSE
    /\ exportCancelled = FALSE
    /\ batchOpener = "none"
    /\ docFailed = FALSE
    /\ fatalInBatch = FALSE
    /\ unfolded = FALSE
    /\ other = Idle
    /\ call = Idle
    /\ ret = NoRet

\* The session runs with the settings loaded, at either end of the verbosity.
SessionInit ==
    /\ SessionLoaded
    /\ logLevel \in SessionLevels
    /\ settingsLoaded = TRUE
    /\ sections = 1

Init == SessionInit /\ BenchIdle

\* A new batch can open a leaf.
CanOpen == batchStarted \/ leafCount < MaxLeaves

\* MarkdownRendererAPI.beginBatch(options)
BeginBatchOp ==
    /\ call.pc = "idle"
    /\ CanOpen
    /\ \E att, win \in BOOLEAN :
          Apply(beginBatch(Fresh, [Idle EXCEPT !.op = "beginBatch"], att, win, FALSE))

\* MarkdownRendererAPI.endBatch()
EndBatchOp ==
    /\ call.pc = "idle"
    /\ Apply(Return(endBatch(Fresh), [Idle EXCEPT !.op = "endBatch"], "void",
                    IF batchStarted THEN "ended" ELSE "no-op"))

\* MarkdownRendererAPI.checkCancelled() / ExportLog.isCancelled()
CheckCancelledOp ==
    /\ call.pc = "idle"
    /\ LET cc == checkCancelled(Fresh)
       IN  Apply(Return(cc.m, [Idle EXCEPT !.op = "checkCancelled"],
                        IF cc.val THEN "true" ELSE "false", "checkCancelled"))

\* _MarkdownRendererInternal.renderFile(file, options)
RenderFileOp ==
    /\ call.pc = "idle"
    /\ \E f \in Files, att, win \in BOOLEAN :
          /\ f = "media" \/ CanOpen
          /\ Apply(renderFile(Fresh, [Idle EXCEPT !.op = "renderFile", !.file = f],
                              att, win))

\* _MarkdownRendererInternal.renderMarkdown(markdown, options)
RenderMarkdownOp ==
    /\ call.pc = "idle"
    /\ CanOpen
    /\ \E att, win, throws \in BOOLEAN :
          Apply(renderMarkdown(Fresh, [Idle EXCEPT !.op = "renderMarkdown", !.file = "md"],
                               att, win, throws))

\* ExportLog.error(message, title, fatal), called by a client of the API
\* between two render calls.
ErrorOp ==
    /\ call.pc = "idle"
    /\ \E fatal \in BOOLEAN : Set(error(Fresh, "reported", fatal))
    /\ ret' = NoRet
    /\ UNCHANGED call

\* A tick of the interval timer of the wait the call is suspended in.
TimerTick ==
    /\ call.pc \in {"bb_attach", "rf_leaf", "md_rendered", "md_computed",
                    "md_transcl", "md_plugin"}
    /\ \E flag, flag2, win, throws \in BOOLEAN :
          Apply(CASE call.pc = "bb_attach" -> AttachWait(Fresh, call, FALSE, win, throws)
                  [] call.pc = "rf_leaf" -> LeafWait(Fresh, call, FALSE, throws)
                  [] call.pc = "md_rendered" -> MdRenderedWait(Fresh, call, flag, FALSE)
                  [] call.pc = "md_computed" -> MdComputedWait(Fresh, call, flag, FALSE)
                  [] call.pc = "md_transcl" -> MdTransclWait(Fresh, call, flag, flag2, FALSE)
                  [] call.pc = "md_plugin" -> MdPluginWait(Fresh, call, flag, FALSE))

\* await renderLeaf.openFile(file) returns or throws.
OpenFileReturns ==
    /\ call.pc = "rf_open"
    /\ \E throws \in BOOLEAN : Apply(AfterOpen(Fresh, call, throws))

\* The awaits of unfoldAllHeadings, unfoldAllLists and parseSync return.
ParseReturns ==
    /\ call.pc = "md_parse"
    /\ \E parseFails \in BOOLEAN : Apply(MdParsed(Fresh, call, parseFails))

\* await section.render() returns; the wait for section.rendered starts.
SectionRenderReturns ==
    /\ call.pc = "md_render"
    /\ \E flag \in BOOLEAN : Apply(MdRenderedWait(Fresh, call, flag, TRUE))

\* await renderer.measureSection(section) returns; the wait for
\* section.computed starts.
MeasureReturns ==
    /\ call.pc = "md_measure"
    /\ \E flag \in BOOLEAN : Apply(MdComputedWait(Fresh, call, flag, TRUE))

\* The dataview and postProcess awaits return; the folded callouts of the
\* section (folded: it has one) are unfolded and the wait for transclusions
\* starts.
PostProcessReturns ==
    /\ call.pc = "md_post"
    /\ \E folded, flag, flag2 \in BOOLEAN :
          Apply(MdTransclWait([Fresh EXCEPT !.unfolded = @ \/ folded],
                              call, flag, flag2, TRUE))

\* await Promise.all(promises) returns; the unfolded callouts are folded
\* again and the view's html is assembled.
PromisesSettle ==
    /\ call.pc = "md_all"
    /\ Apply(Finish([Fresh EXCEPT !.unfolded = FALSE], call, TRUE, "ok"))

\* renderGeneric's delay(2000) is over.
DelayElapses ==
    /\ call.pc = "gen_delay"
    /\ Apply(GenericDelayed(Fresh, call))

\* The "close" event of a window whose handler is subscribed.
WindowClosed ==
    \E w \in closeHandlers :
        /\ Set(windowClosed(Fresh, w))
        /\ ret' = NoRet
        /\ UNCHANGED call

\* The host attaches the render leaf to its parent.
LeafAttaches ==
    /\ renderLeaf # 0
    /\ ~parent
    /\ detachCount = 0
    /\ Set([Fresh EXCEPT !.parent = TRUE])
    /\ ret' = NoRet
    /\ UNCHANGED call

RemoveAt(s, i) == [j \in 1..(Len(s) - 1) |-> IF j < i THEN s[j] ELSE s[j + 1]]

\* The deferred part of a fatal _reportError: what follows its await.
reportErrorRest(m, i) ==
    LET p == m.pendingReports[i]
        w == IF p.found THEN "true"
             ELSE waitUntil(leafAttached(m), FALSE, p.timer, ReportTimeout, ReportInterval)
    IN  IF w = "wait"
        THEN [m EXCEPT !.pendingReports[i].timer = @ + ReportInterval]
        ELSE IF w = "false"
        THEN [m EXCEPT !.pendingReports = RemoveAt(@, i)]
        ELSE [noLeaf(m) EXCEPT !.pendingReports = RemoveAt(@, i),
                               !.loadingContainer = 0]

\* A suspended _reportError goes on: its wait resolved at once, or a tick
\* of its interval timer.
ReportContinues ==
    \E i \in 1..Len(pendingReports) :
        /\ Set(reportErrorRest(Fresh, i))
        /\ ret' = NoRet
        /\ UNCHANGED call

Next ==
    \/ BeginBatchOp
    \/ EndBatchOp
    \/ CheckCancelledOp
    \/ RenderFileOp
    \/ RenderMarkdownOp
    \/ ErrorOp
    \/ TimerTick
    \/ OpenFileReturns
    \/ ParseReturns
    \/ SectionRenderReturns
    \/ MeasureReturns
    \/ PostProcessReturns
    \/ PromisesSettle
    \/ DelayElapses
    \/ WindowClosed
    \/ LeafAttaches
    \/ ReportContinues

Spec == Init /\ [][Next]_vars

\* The session when every timer fires and every awaited call into the
\* render leaf returns.  Nothing makes the client call, the window close
\* or the leaf attach.
LiveSpec ==
    /\ Spec
    /\ WF_vars(TimerTick) /\ WF_vars(DelayElapses)
    /\ WF_vars(OpenFileReturns) /\ WF_vars(ParseReturns)
    /\ WF_vars(SectionRenderReturns) /\ WF_vars(MeasureReturns)
    /\ WF_vars(PostProcessReturns) /\ WF_vars(PromisesSettle)

\* --------------------------------------------- two render calls at once

\* The call that was running is suspended at an await and the other call
\* in flight goes on, or a caller goes on to make a second call.
Switch ==
    /\ call.pc # "idle" \/ other.pc # "idle"
    /\ call.op \in {"none", "renderFile", "renderMarkdown"}
    /\ call' = other
    /\ other' = call
    /\ ret' = NoRet
    /\ UNCHANGED <<batchStarted, cancelled, errorInBatch, renderLeaf, electronWindow,
                   loadingContainer, callLog, progress, pendingReports,
                   closeHandlers, leafCount, parent, detachCount, wrapper,
                   logLevel, settingsLoaded, sections, exportCancelled, batchOpener,
                   docFailed, fatalInBatch, unfolded>>
    /\ UNCHANGED benchVars

\* Two render calls in flight.  The stages of renderMarkdownView are left
\* out: the render of a markdown document stays in progress.
OverlapNext ==
    \/ RenderFileOp
    \/ RenderMarkdownOp
    \/ TimerTick
    \/ OpenFileReturns
    \/ DelayElapses
    \/ LeafAttaches
    \/ Switch

OverlapSpec == Init /\ [][OverlapNext]_vars

\* ------------------------------------- documents of several sections

\* The session with markdown documents of MaxSections sections each.
MdInit ==
    /\ SessionLoaded
    /\ logLevel \in SessionLevels
    /\ settingsLoaded = TRUE
    /\ sections = MaxSections
    /\ BenchIdle

\* Batches, the renders of markdown and the closing of the window.
MdSpec ==
    MdInit /\ [][\/ BeginBatchOp
                 \/ RenderMarkdownOp
                 \/ TimerTick
                 \/ ParseReturns
                 \/ SectionRenderReturns
                 \/ MeasureReturns
                 \/ PostProcessReturns
                 \/ PromisesSettle
                 \/ WindowClosed]_vars

\* ------------------------------------------------ waitUntil on its own

\* The session stays as loaded while a function is taken on its own.
SessionIdle ==
    UNCHANGED <<batchStarted, cancelled, errorInBatch, renderLeaf, electronWindow,
                loadingContainer, callLog, progress, pendingReports, closeHandlers,
                leafCount, parent, detachCount, wrapper, logLevel, settingsLoaded, sections,
                exportCancelled, batchOpener, docFailed, fatalInBatch, unfolded, other, call, ret>>

\* waitUntil(condition, timeout, interval) is about to be called.
WaitInit ==
    /\ SessionInit
    /\ CanvasIdle /\ LogIdle /\ DocIdle /\ PostIdle /\ OptsIdle /\ TwinIdle /\ SiteIdle
    /\ \E t \in 1..MaxWaitTimeout, i \in 1..MaxWaitInterval :
          wait = [timeout |-> t, interval |-> i, timer |-> 0, ticks |-> 0,
                  state |-> "new", last |-> FALSE, armed |-> FALSE]

\* The call: the condition is evaluated once (p: its value); the interval
\* timer is started if it is false.
WaitCalled ==
    /\ wait.state = "new"
    /\ \E p \in BOOLEAN :
          LET r == poll(p, TRUE, 0, wait.timeout, wait.interval)
          IN  wait' = [wait EXCEPT !.last = p,
                                   !.armed = r # "true",
                                   !.state = IF r = "true" THEN "true" ELSE "polling"]
    /\ SessionIdle
    /\ UNCHANGED <<canvas, wholeLog, doc, post, opts, twin, site>>

\* A callback of the interval that resolves and leaves the interval set.
intervalCallbackNoClear(w, p) ==
    LET r == poll(p, FALSE, w.timer, w.timeout, w.interval)
    IN  [w EXCEPT !.last = p,
                  !.ticks = @ + 1,
                  !.timer = IF p THEN @ ELSE @ + w.interval,
                  !.state = IF r = "wait" THEN @ ELSE r]

\* The callback of setInterval (p: the value of the condition): it
\* resolves the promise and clears the interval, or adds to the timer.
intervalCallback(w, p) ==
    LET r == poll(p, FALSE, w.timer, w.timeout, w.interval)
    IN  [w EXCEPT !.last = p,
                  !.ticks = @ + 1,
                  !.timer = IF p THEN @ ELSE @ + w.interval,
                  !.armed = r = "wait",
                  !.state = IF r = "wait" THEN @ ELSE r]

\* A tick of the interval timer, while the interval is set.
WaitTick ==
    /\ wait.armed
    /\ wait.ticks <= MaxWaitTimeout
    /\ \E p \in BOOLEAN : wait' = intervalCallback(wait, p)
    /\ SessionIdle
    /\ UNCHANGED <<canvas, wholeLog, doc, post, opts, twin, site>>

WaitNext == WaitCalled \/ WaitTick

WaitSpec == WaitInit /\ [][WaitNext]_vars

\* ------------------------------------------------ ExportLog on its own

\* Types of the entries Path queues for the log (Path.dequeueLog).
PathLogs == {"info", "warn", "error", "fatal"}

\* What Path.dequeueLog can return to a call.
PathQueues == UNION {[1..n -> PathLogs] : n \in 0..MaxPathLogs}

\* pullPathLogs: every queued entry is logged by the function of its type.
RECURSIVE pullPathLogs(_, _)
pullPathLogs(m, q) ==
    IF q = <<>> THEN m
    ELSE LET m1 == CASE Head(q) = "info"  -> log(m, "path")
                      [] Head(q) = "warn"  -> warning(m, "path")
                      [] Head(q) = "error" -> error(m, "path", FALSE)
                      [] Head(q) = "fatal" -> error(m, "path", TRUE)
         IN  pullPathLogs(m1, Tail(q))

\* The functions a client of ExportLog calls.
LogKinds == {"log", "warning", "error", "fatal", "progress"}

\* The level the entry of a call is written at.
LevelOf(kind) ==
    CASE kind = "log"      -> "INFO"
      [] kind = "warning"  -> "WARNING"
      [] kind = "error"    -> "ERROR"
      [] kind = "fatal"    -> "FATAL ERROR"
      [] kind = "progress" -> "Progress"

\* ExportLog.log / warning / error / progress called with q queued by Path:
\* the first three pull the queue before they append, progress after.
exportLog(m, kind, q) ==
    CASE kind = "log"      -> log(pullPathLogs(m, q), "called")
      [] kind = "warning"  -> warning(pullPathLogs(m, q), "called")
      [] kind = "error"    -> error(pullPathLogs(m, q), "called", FALSE)
      [] kind = "fatal"    -> error(pullPathLogs(m, q), "called", TRUE)
      [] kind = "progress" ->
            reportProgress(pullPathLogs(appendLog(m, "Progress", "called"), q),
                           "called")

\* The log is kept whole, under every verbosity, loaded or not.
LogInit ==
    /\ SessionLoaded
    /\ logLevel \in LogLevels
    /\ settingsLoaded \in BOOLEAN
    /\ sections = 1
    /\ WaitIdle /\ CanvasIdle /\ DocIdle /\ PostIdle /\ OptsIdle /\ TwinIdle /\ SiteIdle
    /\ wholeLog = TRUE

\* A client calls one of the functions of ExportLog.
ExportLogCalled ==
    /\ call.pc = "idle"
    /\ \E kind \in LogKinds, q \in PathQueues :
          /\ Set(exportLog(Fresh, kind, q))
          /\ ret' = [NoRet EXCEPT !.op = kind,
                                  !.val = IF emitted(kind, settingsLoaded, logLevel)
                                          THEN "shown" ELSE "silent"]
    /\ UNCHANGED call

LogNext ==
    \/ ExportLogCalled
    \/ BeginBatchOp
    \/ EndBatchOp
    \/ TimerTick
    \/ LeafAttaches
    \/ ReportContinues

LogSpec == LogInit /\ [][LogNext]_vars

\* ------------------------------------------ makeHeadingsTrees on its own

\* A block of the rendered document: a div whose direct children hold a
\* heading of level h (0: none), as the first element child or after
\* another element; footer: the heading, or the block when it has none,
\* marks the footer or the footnotes.
Par == [h |-> 0, first |-> TRUE, footer |-> FALSE]

HeadingBlock(l) == [h |-> l, first |-> TRUE, footer |-> FALSE]

BlockKinds ==
    {Par, [Par EXCEPT !.footer = TRUE]}
          \cup {[h |-> l, first |-> TRUE, footer |-> f] :
                    l \in 1..MaxHeadingLevel, f \in BOOLEAN}
          \cup {[h |-> l, first |-> FALSE, footer |-> FALSE] : l \in 1..MaxHeadingLevel}

\* The sequence [h1, p, h2, p, h3, p, h2, p].
ExampleBlocks ==
    <<HeadingBlock(1), Par, HeadingBlock(2), Par, HeadingBlock(3), Par,
      HeadingBlock(2), Par>>

DocInputs ==
    UNION {[1..n -> BlockKinds] : n \in 1..MaxBlocks} \cup {ExampleBlocks}

\* The document as rendered: the blocks are siblings under the root (0).
\* kids[x]: the children containers of block x, each the sequence of the
\* blocks in it (the root has one: its child list).  icons[x]: collapse
\* indicators on the heading of x (the renderer may have put one).
FlatTree(blocks, iconsIn) ==
    LET n == Len(blocks)
    IN  [kids    |-> [x \in 0..n |-> IF x = 0 THEN <<[k \in 1..n |-> k]>> ELSE <<>>],
         wrap    |-> [x \in 1..n |-> FALSE],
         heading |-> [x \in 1..n |-> FALSE],
         icons   |-> [x \in 1..n |-> IF blocks[x].h > 0 /\ iconsIn THEN 1 ELSE 0]]

RECURSIVE Join(_)
Join(ss) == IF ss = <<>> THEN <<>> ELSE Head(ss) \o Join(Tail(ss))

\* Document order of the blocks in s and below them.
RECURSIVE DocOrder(_, _)
DocOrder(t, s) ==
    IF s = <<>> THEN <<>>
    ELSE <<Head(s)>> \o DocOrder(t, Join(t.kids[Head(s)])) \o DocOrder(t, Tail(s))

\* getHeaderEl: the first element child, if it is a heading.
getHeaderEl(b) == b.h > 0 /\ b.first

\* html.querySelectorAll("div:has(> :is(h1, ..., h6) ...)"): the divs that
\* directly contain a heading, in document order.
NodeList(t, blocks) ==
    SelectSeq(DocOrder(t, Join(t.kids[0])), LAMBDA x : blocks[x].h > 0)

\* The container that holds block x: <<parent, container, position>>.
Where(t, x) ==
    LET p == CHOOSE q \in DOMAIN t.kids :
                 \E c \in 1..Len(t.kids[q]) : \E k \in 1..Len(t.kids[q][c]) :
                     t.kids[q][c][k] = x
        c == CHOOSE d \in 1..Len(t.kids[p]) :
                 \E k \in 1..Len(t.kids[p][d]) : t.kids[p][d][k] = x
        k == CHOOSE j \in 1..Len(t.kids[p][c]) : t.kids[p][c][j] = x
    IN  <<p, c, k>>

\* The walk of makeHeaderTree: the siblings that follow x are moved into
\* container c of x until one is a heading that is not deeper than x
\* (strict: that is shallower than x) or that marks the footer.
headerWalk(t, blocks, x, c, strict) ==
    LET w    == Where(t, x)
        sibs == t.kids[w[1]][w[2]]
        Stops(y) ==
            /\ getHeaderEl(blocks[y])
            /\ \/ IF strict THEN blocks[y].h < blocks[x].h
                            ELSE blocks[y].h <= blocks[x].h
               \/ blocks[y].footer
        stops == {j \in w[3] + 1 .. Len(sibs) : Stops(sibs[j])}
        stop  == IF stops = {} THEN Len(sibs) + 1
                 ELSE CHOOSE j \in stops : \A j2 \in stops : j <= j2
    IN  [t EXCEPT !.kids =
            [@ EXCEPT ![w[1]][w[2]] = SubSeq(sibs, 1, w[3]) \o
                                      SubSeq(sibs, stop, Len(sibs)),
                      ![x][c] = @ \o SubSeq(sibs, w[3] + 1, stop - 1)]]

\* A walk that stops only at a shallower heading.
makeHeaderTreeStrict(t, blocks, x, c) == headerWalk(t, blocks, x, c, TRUE)

makeHeaderTree(t, blocks, x, c) == headerWalk(t, blocks, x, c, FALSE)

\* A callback that does not look for the marker class.
headingCallbackUnmarked(t, blocks, x) ==
    LET t1 == [t EXCEPT !.wrap[x] = TRUE]
    IN  IF ~getHeaderEl(blocks[x]) THEN t1
        ELSE LET t2 == [t1 EXCEPT !.heading[x] = TRUE,
                                  !.icons[x] = IF @ = 0 THEN 1 ELSE @,
                                  !.kids[x] = Append(@, <<>>)]
             IN  makeHeaderTree(t2, blocks, x, Len(t2.kids[x]))

\* The callback of the forEach over the node list, for the div x: the
\* wrapper class, then, unless the heading carries the class "heading",
\* that class, one collapse indicator, a new children container, the walk.
headingCallback(t, blocks, x) ==
    LET t1 == [t EXCEPT !.wrap[x] = TRUE]
    IN  IF ~getHeaderEl(blocks[x]) \/ t.heading[x] THEN t1
        ELSE LET t2 == [t1 EXCEPT !.heading[x] = TRUE,
                                  !.icons[x] = IF @ = 0 THEN 1 ELSE @,
                                  !.kids[x] = Append(@, <<>>)]
             IN  makeHeaderTree(t2, blocks, x, Len(t2.kids[x]))

\* The lines after the forEach: every heading gets the class "heading",
\* an h1 loses its (first) collapse indicator.
finishHeadings(t, blocks) ==
    [t EXCEPT !.heading = [x \in DOMAIN @ |-> @[x] \/ blocks[x].h > 0],
              !.icons = [x \in DOMAIN @ |->
                            IF blocks[x].h = 1 /\ @[x] > 0 THEN @[x] - 1 ELSE @[x]]]

\* makeHeadingsTrees is called on a rendered document.
HeadingInit ==
    /\ SessionInit
    /\ WaitIdle /\ CanvasIdle /\ LogIdle /\ PostIdle /\ OptsIdle /\ TwinIdle /\ SiteIdle
    /\ \E blocks \in DocInputs, iconsIn \in BOOLEAN :
          LET t == FlatTree(blocks, iconsIn)
          IN  doc = [state |-> "pass", blocks |-> blocks, tree |-> t,
                     list |-> NodeList(t, blocks), i |-> 1, pass |-> 1,
                     built |-> t]

\* One callback of the forEach.
HeadingCallback ==
    /\ doc.state = "pass"
    /\ doc.i <= Len(doc.list)
    /\ doc' = [doc EXCEPT !.tree = headingCallback(@, doc.blocks, doc.list[doc.i]),
                          !.i = @ + 1]
    /\ SessionIdle
    /\ UNCHANGED <<wait, canvas, wholeLog, post, opts, twin, site>>

\* The forEach is over and makeHeadingsTrees returns; it is then called
\* once more, on the tree it has built.
HeadingsDone ==
    /\ doc.state = "pass"
    /\ doc.i > Len(doc.list)
    /\ LET t == finishHeadings(doc.tree, doc.blocks)
       IN  doc' = IF doc.pass = 1
                  THEN [doc EXCEPT !.tree = t, !.built = t, !.pass = 2,
                                   !.list = NodeList(t, doc.blocks), !.i = 1]
                  ELSE [doc EXCEPT !.tree = t, !.state = "done"]
    /\ SessionIdle
    /\ UNCHANGED <<wait, canvas, wholeLog, post, opts, twin, site>>

HeadingNext == HeadingCallback \/ HeadingsDone

HeadingSpec == HeadingInit /\ [][HeadingNext]_vars

\* -------------------------------------------- postProcessHTML on its own

\* Strings are sequences of characters ("?query=tag:" is one of them).
\* HTMLAnchorElement.href: the href attribute resolved against the page.
ResolvedHref(attr) == <<"a", ":", "/">> \o attr

\* String.split("#")
RECURSIVE SplitHash(_, _)
SplitHash(s, piece) ==
    IF s = <<>> THEN <<piece>>
    ELSE IF Head(s) = "#" THEN <<piece>> \o SplitHash(Tail(s), <<>>)
    ELSE SplitHash(Tail(s), Append(piece, Head(s)))

\* postProcessHTML(html, options), its steps in the order of the source; it
\* returns at once when html has no view container.
postProcessHTML(h, keepContainer) ==
    LET \* the view container gets the class "obsidian-document"
        markRoot(t) ==
            IF t.view = "self" /\ t.marked THEN t ELSE [t EXCEPT !.marked = TRUE]
        \* .mod-header, .mod-footer go unless a document container is made
        removeExtras(t) == IF keepContainer THEN t ELSE [t EXCEPT !.extras = FALSE]
        \* p:has(div) becomes a span
        fixParagraphs(t) == [t EXCEPT !.pWithDiv = FALSE]
        \* input[type=text]: the value goes into the attribute and is cleared
        encodeInput(t) == [t EXCEPT !.input = [attr |-> t.input.value, value |-> <<>>]]
        \* a.tag: href.split("#")[1] ?? href.substring(1) becomes the query,
        \* the attribute as found goes into data-href
        rewriteTag(t) ==
            IF t.tag.href = <<>> THEN t
            ELSE LET href  == ResolvedHref(t.tag.href)
                     split == SplitHash(href, <<>>)
                     tag   == IF Len(split) >= 2 THEN split[2] ELSE Tail(href)
                 IN  [t EXCEPT !.tag = [href |-> <<"?query=tag:">> \o tag,
                                        dataHref |-> t.tag.href]]
        \* img, video: a non-empty width attribute becomes a style
        widthToStyle(t) ==
            IF t.img.width \in {"none", ""} THEN t
            ELSE [t EXCEPT !.img = [width |-> "none",
                                    styleWidth |-> IF t.img.width = " " THEN ""
                                                   ELSE "100px",
                                    maxWidth |-> "100%"]]
        \* .frontmatter is put before .markdown-sizer and the element that
        \* held it is removed
        moveFrontmatter(t) ==
            IF t.body = "removed" \/ t.frontmatter \in {"none", "gone"} THEN t
            ELSE IF t.frontmatter = "wrapped"
            THEN [t EXCEPT !.frontmatter = IF t.sizer THEN "beforeSizer" ELSE "gone"]
            ELSE [t EXCEPT !.body = "removed"]
        \* iframe: loading = "lazy"
        lazyFrames(t) == [t EXCEPT !.lazy = TRUE]
        \* li:has(ul), li:has(ol): a collapse icon unless there is one
        listIndicators(t) == [t EXCEPT !.listIcons = IF @ = 0 THEN 1 ELSE @]
    IN  IF h.view = "none" THEN h
        ELSE listIndicators(lazyFrames(moveFrontmatter(widthToStyle(rewriteTag(
                 encodeInput(fixParagraphs(removeExtras(markRoot(h)))))))))

\* The trees postProcessHTML is given.
HtmlInputs ==
    [view : {"self", "inner", "none"}, marked : {FALSE}, extras : BOOLEAN,
     pWithDiv : BOOLEAN,
     input : [attr : {<<>>}, value : {<<>>, <<"x">>}],
     tag : [href : {<<>>, <<"#", "t">>}, dataHref : {<<>>}],
     img : [width : {"none", "", " ", "100"}, styleWidth : {""}, maxWidth : {""}],
     frontmatter : {"none", "wrapped"}, sizer : BOOLEAN, body : {"held"},
     lazy : {FALSE}, listIcons : {0, 1}]

PostInit ==
    /\ SessionInit
    /\ WaitIdle /\ CanvasIdle /\ LogIdle /\ DocIdle /\ OptsIdle /\ TwinIdle /\ SiteIdle
    /\ \E h \in HtmlInputs, keep \in BOOLEAN :
          post = [state |-> "ready", runs |-> 0, keepContainer |-> keep,
                  html |-> h, once |-> h]

\* postProcessHTML runs on the tree, a first and a second time; when it
\* finds no view container it logs an error (no batch is active).
PostProcessRuns ==
    /\ post.state = "ready"
    /\ LET h == postProcessHTML(post.html, post.keepContainer)
       IN  post' = [post EXCEPT !.html = h,
                                !.once = IF post.runs = 0 THEN h ELSE @,
                                !.runs = @ + 1,
                                !.state = IF post.runs = 1 THEN "done" ELSE @]
    /\ callLog' = IF post.html.view = "none"
                  THEN error(Cur, "Failed to find view container", FALSE).callLog
                  ELSE callLog
    /\ UNCHANGED <<batchStarted, cancelled, errorInBatch, renderLeaf, electronWindow,
                   loadingContainer, progress, pendingReports, closeHandlers,
                   leafCount, parent, detachCount, wrapper, logLevel,
                   settingsLoaded, sections, exportCancelled, batchOpener, docFailed,
                   fatalInBatch, unfolded, other, call, ret>>
    /\ UNCHANGED <<wait, canvas, wholeLog, doc, opts, twin, site>>

PostSpec == PostInit /\ [][PostProcessRuns]_vars

\* ------------------------------------- the options of the entry points

\* Fields of MarkdownRendererOptions (three of them).
OptionFields == {"container", "postProcess", "inlineHTML"}

\* Object.assign(target, source): the own fields of source are written
\* into target, which is returned.
objectAssign(target, source) ==
    [f \in DOMAIN target \cup DOMAIN source |->
        IF f \in DOMAIN source THEN source[f] ELSE target[f]]

\* An entry point that fills the defaults into the object it is given.
entryOptionsInPlace(o) ==
    LET filled == objectAssign(o.caller, o.defaults)
    IN  [o EXCEPT !.caller = filled, !.effective = filled]

\* options = Object.assign(new MarkdownRendererOptions(), options);
\* renderFileToString does it and calls renderFile, which does it again.
entryOptions(o) ==
    LET once == objectAssign(o.defaults, o.caller)
    IN  [o EXCEPT !.effective = IF o.entry = "renderFileToString"
                                THEN objectAssign(o.defaults, once) ELSE once]

\* renderCanvas, per node: optionsCopy = Object.assign({}, options);
\* optionsCopy.container = embedEl
canvasNodeOptions(o) ==
    [o EXCEPT !.node = [objectAssign(<<>>, o.effective) EXCEPT !["container"] = "embedEl"]]

\* An entry point is about to be called: with no options object (nothing
\* is given) or with an object that sets some of the fields.
OptionsInit ==
    /\ SessionInit
    /\ WaitIdle /\ CanvasIdle /\ LogIdle /\ DocIdle /\ PostIdle /\ TwinIdle /\ SiteIdle
    /\ LET Entries == {"renderMarkdownToString", "renderMarkdownToElement",
                       "renderFile", "renderFileToString", "beginBatch"}
           Values  == {"undefined", "on", "off"}
       IN  \E e \in Entries, d \in [OptionFields -> Values],
              set \in SUBSET OptionFields :
              \E c \in [set -> Values] :
                  opts = [state |-> "new", entry |-> e, defaults |-> d,
                          given |-> c, caller |-> c, effective |-> <<>>,
                          node |-> <<>>]

\* The entry point is called.
OptionsCalled ==
    /\ opts.state = "new"
    /\ opts' = [entryOptions(opts) EXCEPT !.state = "called"]
    /\ SessionIdle
    /\ UNCHANGED <<wait, canvas, wholeLog, doc, post, twin, site>>

\* The document is a canvas and a node of it is rendered.
OptionsCanvasNode ==
    /\ opts.state = "called"
    /\ opts.entry \in {"renderFile", "renderFileToString"}
    /\ opts' = [canvasNodeOptions(opts) EXCEPT !.state = "node"]
    /\ SessionIdle
    /\ UNCHANGED <<wait, canvas, wholeLog, doc, post, twin, site>>

OptionsSpec == OptionsInit /\ [][OptionsCalled \/ OptionsCanvasNode]_vars

\* ------------------------------- the same operations at every verbosity

\* One operation on the session m that runs with Settings.logLevel = level.
twinStep(m, op, level) ==
    CASE op = "beginBatch" ->
            beginBatch(m, [Idle EXCEPT !.op = "beginBatch"], TRUE, TRUE, FALSE).m
      [] op = "log"        -> log(m, "called")
      [] op = "warning"    -> warning(m, "called")
      [] op = "error"      -> errorAt(m, "called", FALSE, TRUE, level)
      [] op = "fatal"      -> errorAt(m, "called", TRUE, TRUE, level)
      [] op = "report"     -> reportErrorRest(m, 1)
      [] op = "endBatch"   -> endBatch(m)

\* The session as loaded, once for every verbosity.
VerbosityInit ==
    /\ SessionInit
    /\ WaitIdle /\ CanvasIdle /\ LogIdle /\ DocIdle /\ PostIdle /\ OptsIdle /\ SiteIdle
    /\ twin = [level \in LogLevels |-> Cur]

\* The client performs the same operation in every run.
TwinOperation ==
    /\ \E op \in {"beginBatch", "log", "warning", "error", "fatal", "report",
                   "endBatch"} :
          /\ op = "beginBatch"
                => \A level \in LogLevels :
                       twin[level].batchStarted \/ twin[level].leafCount < MaxLeaves
          /\ op = "report" => \A level \in LogLevels : twin[level].pendingReports # <<>>
          /\ twin' = [level \in LogLevels |-> twinStep(twin[level], op, level)]
    /\ \A level \in LogLevels :
          /\ Len(twin'[level].callLog) <= MaxLog
          /\ Len(twin'[level].pendingReports) <= MaxPending
    /\ SessionIdle
    /\ UNCHANGED <<wait, canvas, wholeLog, doc, post, opts, site>>

VerbositySpec == VerbosityInit /\ [][TwinOperation]_vars

\* ------------------------------------- the page data of the exported site

\* The urls page data is asked for by: the page itself or its data file.
Urls == [stem : {"a", "b"}, ext : {".html", ".json"}]

\* What the data file of a page can hold when it is fetched.
Datas == {"d1", "d2"}

\* How the load can end without data: this.fetch gives no response, the
\* response is not ok, or fetching or parsing throws.
Failures == {"none", "notok", "throws"}

\* No getWebpageData or getWebpageDataCached call returned in the last step.
NoAnswer == [op |-> "none", url |-> [stem |-> "", ext |-> ""], val |-> "undefined"]

\* url.replace(/\.html$/, ".json")
replaceExtension(url) ==
    IF url.ext = ".html" THEN [url EXCEPT !.ext = ".json"] ELSE url

\* getWebpageData(url) up to its first await: the cache is looked up under
\* the url as given; on a miss the url is rewritten and the fetch is issued.
getWebpageData(s, url) ==
    IF s.cachedMetadata[url] # "undefined"
    THEN [s EXCEPT !.answer = [op |-> "getWebpageData", url |-> url,
                               val |-> s.cachedMetadata[url]]]
    ELSE [s EXCEPT !.inFlight = Append(@, [given |-> url,
                                           url |-> replaceExtension(url)]),
                   !.answer = NoAnswer]

\* getWebpageData after its fetch settled with outcome (a failure or the
\* parsed data): a failure returns undefined at once, data is stored under
\* the url the call fetched and returned.  The call is then over.
getWebpageDataRest(s, i, outcome) ==
    LET c == s.inFlight[i]
        rest == SubSeq(s.inFlight, 1, i - 1)
                    \o SubSeq(s.inFlight, i + 1, Len(s.inFlight))
    IN  IF outcome \in Failures
        THEN [s EXCEPT !.inFlight = rest,
                       !.answer = [op |-> "getWebpageData", url |-> c.given,
                                   val |-> "undefined"]]
        ELSE [s EXCEPT !.cachedMetadata[c.url] = outcome,
                       !.inFlight = rest,
                       !.loaded = @ \cup {c.given},
                       !.answer = [op |-> "getWebpageData", url |-> c.given,
                                   val |-> outcome]]

\* getWebpageDataCached(url)
getWebpageDataCached(s, url) ==
    [s EXCEPT !.answer = [op |-> "getWebpageDataCached", url |-> url,
                          val |-> s.cachedMetadata[url]]]

\* The site as constructed: nothing cached, nothing asked.  loaded records
\* the urls a getWebpageData call has loaded data for.
SiteInit ==
    /\ SessionInit
    /\ WaitIdle /\ CanvasIdle /\ LogIdle /\ DocIdle /\ PostIdle /\ OptsIdle /\ TwinIdle
    /\ site = [cachedMetadata |-> [u \in Urls |-> "undefined"],
               inFlight |-> <<>>, loaded |-> {}, answer |-> NoAnswer]

SiteFrame ==
    /\ SessionIdle
    /\ UNCHANGED <<wait, canvas, wholeLog, doc, post, opts, twin>>

GetWebpageDataCalled ==
    /\ \E url \in Urls :
          /\ site' = getWebpageData(site, url)
          /\ Len(site'.inFlight) <= MaxInFlight
    /\ SiteFrame

FetchSettles ==
    /\ \E i \in DOMAIN site.inFlight, outcome \in Failures \cup Datas :
          site' = getWebpageDataRest(site, i, outcome)
    /\ SiteFrame

GetWebpageDataCachedCalled ==
    /\ \E url \in Urls : site' = getWebpageDataCached(site, url)
    /\ SiteFrame

SiteSpec ==
    SiteInit /\ [][GetWebpageDataCalled \/ FetchSettles \/ GetWebpageDataCachedCalled]_vars

\* ------------------------------------------------------------- properties

Renders == {"renderFile", "renderMarkdown"}

\* An API call returned to its caller in the last step without throwing.
Returned(ops) == ret.op \in ops /\ ret.val # "throw"

\* C1: when renderFile or renderMarkdown opened the batch itself (a lone
\* batch), the session is inactive when the call returns, whatever the exit
\* path: success, load error, critical timeout, no leaf, cancellation.
C1_LoneBatchEndedOnReturn ==
    (Returned(Renders) /\ ret.lone) => ~batchStarted

\* C2: once the windowClosed handler has set cancelled, no render call
\* returns a rendered document until beginBatch is called explicitly: each
\* returns absent.  (A media file is rendered without the session.)
C2_CancelledRendersReturnAbsent ==
    (Returned(Renders) /\ exportCancelled /\ ret.why # "attachment")
        => ret.val = "absent"

\* C3: detach() is invoked at most once on a render leaf, over any sequence
\* of operations, the attach-timeout path of beginBatch included.
C3_DetachAtMostOnce == detachCount <= 1


\* The fields of the session and what the host shows of it.
SessionVars ==
    <<batchStarted, cancelled, errorInBatch, renderLeaf, electronWindow,
      loadingContainer, parent, wrapper, detachCount, progress, pendingReports,
      closeHandlers, leafCount>>

\* The API call op begins and returns in this step.
Runs(op) == call.pc = "idle" /\ ret'.op = op

\* C4: beginBatch called while a batch is active does nothing: batchStarted,
\* cancelled, errorInBatch and the render leaf are as before and no leaf is
\* opened (no field of the session changes at all).
C4_BeginBatchWhileActive ==
    [][(Runs("beginBatch") /\ batchStarted) =>
           batchStarted' /\ UNCHANGED SessionVars]_vars

\* beginBatch returned from its guard in a batch in which an error was reported.
C4_Witness ==
    /\ ret.op = "beginBatch" /\ ret.why = "no-op"
    /\ batchStarted /\ errorInBatch /\ renderLeaf # 0

\* C5: when beginBatch gets no usable leaf (the leaf is not attached within
\* the wait, or its window has no electronWindow), the leaf it opened has been
\* detached and the session is inactive when it is over.
C5_FailedBeginBatchReleases ==
    ret.why \in {"attach_timeout", "no_window"} =>
        /\ ~batchStarted /\ renderLeaf = 0
        /\ detachCount = 1

\* C6: endBatch does nothing when no batch is active (no field changes,
\* nothing is detached, nothing is logged); when one is, the session is
\* inactive and renderLeaf undefined afterwards, error or not.
C6_EndBatch ==
    [][Runs("endBatch") =>
           IF batchStarted
           THEN ~batchStarted' /\ renderLeaf' = 0 /\ electronWindow' = 0
           ELSE callLog' = <<>> /\ UNCHANGED SessionVars]_vars

\* endBatch ended a batch in which an error was reported.
C6_Witness ==
    /\ ret.op = "endBatch" /\ ret.why = "ended"
    /\ errorInBatch /\ ~batchStarted /\ renderLeaf = 0 /\ callLog # <<>>

\* C7: endBatch on an active batch (whose leaf was not detached before)
\* detaches the leaf if and only if no error was reported in the batch; if
\* one was (a fatal one included), the leaf is not detached and the progress
\* "Completed with errors" is shown.
C7_EndBatchReleasesIffNoError ==
    [][(Runs("endBatch") /\ batchStarted /\ detachCount = 0) =>
           IF errorInBatch
           THEN detachCount' = detachCount /\ progress' = "Completed with errors"
           ELSE detachCount' = detachCount + 1]_vars

\* C8: checkCancelled returns true exactly when cancelled is set or renderLeaf
\* is undefined; when it returns true the session is inactive afterwards;
\* when it returns false no field of the session changes.
C8_CheckCancelled ==
    [][Runs("checkCancelled") =>
           /\ (ret'.val = "true") <=> (cancelled \/ renderLeaf = 0)
           /\ (ret'.val = "true") => ~batchStarted'
           /\ (ret'.val = "false") => UNCHANGED SessionVars]_vars

\* checkCancelled returned true for an undefined renderLeaf, cancelled unset.
C8_Witness ==
    /\ ret.op = "checkCancelled" /\ ret.val = "true"
    /\ ~cancelled /\ errorInBatch /\ ~batchStarted

\* C9: cancelled goes from true to false only in the step in which
\* beginBatch starts a fresh batch: no batch is active before, an API call
\* begins and a new leaf is opened.
C9_CancelledResetOnlyByBeginBatch ==
    [][(cancelled /\ ~cancelled') =>
           /\ ~batchStarted /\ call.pc = "idle"
           /\ leafCount' = leafCount + 1
           /\ batchOpener' \in Renders \cup {"beginBatch"}]_vars

\* windowClosed had set cancelled and a lone batch has reset it.
C9_Witness ==
    exportCancelled /\ ~cancelled /\ batchStarted /\ batchOpener \in Renders

\* C10: in a batch opened by beginBatch, when renderFile fails because
\* openFile threw or a section's wait timed out, it returns absent with an
\* error logged, and the batch is still active on the same leaf and not
\* cancelled.
C10_DocumentFailureIsolated ==
    (ret.op = "renderFile" /\ ~ret.lone /\ ret.why \in {"load", "timeout"}) =>
        /\ ret.val = "absent"
        /\ \E i \in 1..Len(callLog) : callLog[i].level = "ERROR"
        /\ batchStarted /\ ~cancelled
        /\ renderLeaf # 0 /\ renderLeaf = ret.leaf

\* A document rendered in a batch opened by beginBatch after another failed.
C10_Witness ==
    /\ ret.op = "renderFile" /\ ret.val = "result" /\ ret.why = "ok"
    /\ ~ret.lone /\ docFailed /\ batchOpener = "beginBatch"
    /\ batchStarted /\ ~cancelled

\* --------------------------------------- renderCanvas, the node loop

\* Paths of documents a canvas node may embed.
Paths == {"a.md", "b.md"}

\* A node: the file it embeds ("none": node.file undefined), whether it has
\* the embed element and whether it has a child preview.
Nodes == [file : Paths \cup {"none"}, embed : BOOLEAN, preview : BOOLEAN]

\* What the loop leaves in the node's embed element: its content ("empty",
\* "rendered": renderMarkdownView ran into it, "include": the placeholder of
\* IncludeGenerator), the src attribute and the class put on its parent.
Untouched == [content |-> "empty", src |-> "none", external |-> FALSE]

\* A variant of canvasNode that inlines the documents of the export set.
canvasNodeInlinesExported(node, inlineHTML, exported) ==
    IF node.file # "none" /\ node.embed
    THEN IF (inlineHTML \/ node.file \in exported) /\ node.preview
         THEN [Untouched EXCEPT !.content = "rendered"]
         ELSE [content |-> "include", src |-> node.file, external |-> TRUE]
    ELSE IF node.file = "none" /\ node.embed /\ node.preview
    THEN [Untouched EXCEPT !.content = "rendered"]
    ELSE Untouched

\* One pass of the loop over the nodes.
canvasNode(node, inlineHTML, exported) ==
    IF node.file # "none" /\ node.embed
    THEN IF (inlineHTML \/ node.file \notin exported) /\ node.preview
         THEN [Untouched EXCEPT !.content = "rendered"]
         ELSE [content |-> "include", src |-> node.file, external |-> TRUE]
    ELSE IF node.file = "none" /\ node.embed /\ node.preview
    THEN [Untouched EXCEPT !.content = "rendered"]
    ELSE Untouched

\* renderCanvas is about to loop over the nodes of a canvas.
CanvasInit ==
    /\ SessionInit
    /\ WaitIdle /\ LogIdle /\ DocIdle /\ PostIdle /\ OptsIdle /\ TwinIdle /\ SiteIdle
    /\ \E n \in 1..MaxNodes :
          \E inl \in BOOLEAN, ex \in SUBSET Paths, ns \in [1..n -> Nodes] :
              canvas = [inlineHTML |-> inl, exported |-> ex, nodes |-> ns,
                        out |-> <<>>]

\* The loop handles its next node.
CanvasNodeDone ==
    /\ Len(canvas.out) < Len(canvas.nodes)
    /\ canvas' = [canvas EXCEPT !.out =
                      Append(@, canvasNode(canvas.nodes[Len(@) + 1],
                                           canvas.inlineHTML, canvas.exported))]
    /\ SessionIdle
    /\ UNCHANGED <<wait, wholeLog, doc, post, opts, twin, site>>

CanvasNext == CanvasNodeDone

CanvasSpec == CanvasInit /\ [][CanvasNext]_vars

\* The nodes handled so far that embed a document.
Embeds ==
    {i \in 1..Len(canvas.out) :
        canvas.nodes[i].file # "none" /\ canvas.nodes[i].embed}

\* Those of them that have a child preview to render the document with.
Embedding == {i \in Embeds : canvas.nodes[i].preview}

Ceil(a, b) == (a + b - 1) \div b

\* C11: waitUntil resolves true at the call, with no timer tick, when the
\* condition is true then; otherwise it resolves true at the first tick at
\* which the condition is true, no later than the tick at which the time
\* accumulated reaches the timeout, and false at exactly that tick, the
\* ceil(timeout / interval)-th, when every evaluation was false.
C11_WaitUntil ==
    LET n == Ceil(wait.timeout, wait.interval)
    IN  /\ (wait.state \in {"polling", "true", "false"} /\ wait.ticks = 0)
               => (wait.state = "true" <=> wait.last)
        /\ wait.state = "polling" => ~wait.last /\ wait.ticks < n
        /\ wait.state = "true" => wait.last /\ wait.ticks <= n
        /\ wait.state = "false" =>
               /\ ~wait.last /\ wait.ticks = n
               /\ wait.timer >= wait.timeout
               /\ wait.timer - wait.interval < wait.timeout

\* A wait timed out after several ticks, its timeout no multiple of its interval.
C11_Witness ==
    /\ wait.state = "false" /\ wait.ticks >= 2
    /\ wait.timeout % wait.interval # 0

\* C14: renderFile on a media file returns a result of view type
\* "attachment" at once, whatever the state of the session: no batch is
\* opened, no field of the session changes and nothing is logged.
C14_MediaLeavesSession ==
    [][(Runs("renderFile") /\ ret'.file = "media") =>
           /\ ret'.val = "result" /\ ret'.why = "attachment"
           /\ callLog' = <<>>
           /\ UNCHANGED SessionVars]_vars

\* A media file was rendered after the window was closed on a batch.
C14_Witness ==
    /\ ret.op = "renderFile" /\ ret.file = "media" /\ ret.val = "result"
    /\ cancelled /\ ~batchStarted /\ leafCount > 0

\* The paths on which a wait of the call resolved false.
TimedOut == {"attach_timeout", "timeout", "noleaf"}

\* C12: no wait that resolves false makes beginBatch, renderFile or
\* renderMarkdown throw: the call returns (absent, for a render call).
C12_TimeoutNeverThrows ==
    (ret.op \in Renders \cup {"beginBatch"} /\ ret.why \in TimedOut)
        => ret.val # "throw"

\* A fatal error was reported in the batch that is active and its report
\* has run to its end.
FatalReported == fatalInBatch /\ batchStarted /\ pendingReports = <<>>

\* C16: once a fatal error has been reported during an active batch,
\* errorInBatch is true and the render leaf is undefined, so every later
\* checkCancelled returns true and every later render call in that batch
\* returns undefined.
C16_FatalStopsBatch ==
    [][FatalReported =>
           /\ errorInBatch /\ renderLeaf = 0
           /\ Runs("checkCancelled") => ret'.val = "true"
           /\ (call.pc = "idle" /\ (ret'.op \in Renders \/ call'.op \in Renders))
                  => (ret'.op \in Renders /\ ret'.val = "absent")]_vars

\* The blocks below the heading block x.
Below(t, x) ==
    LET s == DocOrder(t, Join(t.kids[x])) IN {s[k] : k \in 1..Len(s)}

\* The first block after x that satisfies Stop, or the end of the document.
NextStop(blocks, x, Stop(_)) ==
    LET js == {j \in x + 1 .. Len(blocks) : Stop(j)}
    IN  IF js = {} THEN Len(blocks) + 1
        ELSE CHOOSE j \in js : \A j2 \in js : j <= j2

\* The tree keeps the blocks in document order.
OrderKept(t, blocks) ==
    DocOrder(t, Join(t.kids[0])) = [k \in 1..Len(blocks) |-> k]

ExampleTree ==
    [x \in 0..8 |->
        CASE x = 0 -> <<<<1>>>>
          [] x = 1 -> <<<<2, 3, 7>>>>
          [] x = 3 -> <<<<4, 5>>>>
          [] x = 5 -> <<<<6>>>>
          [] x = 7 -> <<<<8>>>>
          [] OTHER -> <<>>]

C18_HeadingsIdempotent ==
    doc.state = "done" => doc.tree = doc.built

\* The second run has gone over a tree with nested headings.
C18_Witness ==
    /\ doc.state = "done"
    /\ Len(doc.list) >= 2
    /\ \E x \in 1..Len(doc.blocks) :
          /\ doc.blocks[x].h > 1 /\ doc.tree.icons[x] = 1
          /\ Len(doc.tree.kids[x]) = 1 /\ doc.tree.kids[x][1] # <<>>

\* C19: postProcessHTML applied twice to a tree yields the same tree as
\* applied once.
C19_PostProcessIdempotent ==
    post.state = "done" => post.html = post.once

\* The call has loaded the leaf with its document and has not returned.
InRender(c) == c.op \in Renders /\ c.pc \notin {"idle", "rf_leaf", "bb_attach"}

\* C20: while the render of one call is in progress, no other render call
\* loads the leaf with its document, and no other render call that opened
\* a batch of its own releases the leaf when it returns its result.
C20_OneRenderAtATime ==
    [][(InRender(other) /\ other' = other) =>
           /\ ~(~InRender(call) /\ InRender(call'))
           /\ ~(ret'.op \in Renders /\ ret'.lone /\ ret'.val = "result"
                /\ renderLeaf # 0 /\ renderLeaf' = 0)]_vars

\* C21: the options an entry point works with are the defaults overridden
\* field by field by the fields the caller has set; a field the caller has
\* not set has its default; the caller's object is as it was given, also
\* after the canvas renderer has written the container of a node.
C21_OptionPrecedence ==
    opts.state \in {"called", "node"} =>
        /\ DOMAIN opts.effective = OptionFields
        /\ \A f \in OptionFields :
              opts.effective[f] = IF f \in DOMAIN opts.given THEN opts.given[f]
                                  ELSE opts.defaults[f]
        /\ opts.caller = opts.given

\* A canvas node has been given its container while the caller had set
\* another one and had left postProcess to its default.
C21_Witness ==
    /\ opts.state = "node"
    /\ opts.entry = "renderFileToString"
    /\ DOMAIN opts.given = {"container", "inlineHTML"}
    /\ opts.given["container"] = "on" /\ opts.effective["container"] = "on"
    /\ opts.node["container"] = "embedEl"
    /\ opts.defaults["postProcess"] = "on" /\ opts.effective["postProcess"] = "on"

\* C22: once the cancellation can be seen while a markdown render waits for
\* the rendered or the computed flag of a section (cancelled set or no render
\* leaf), the call goes on by returning undefined: no measureSection, no
\* post-processing, no later section.
C22_CancelStopsSections ==
    [][(call.pc \in {"md_rendered", "md_computed"} /\ (cancelled \/ renderLeaf = 0)
          /\ call' # call)
         => (ret'.op \in Renders /\ ret'.val = "absent")]_vars

\* C23: renderFile called on a document in an active batch that has no
\* render leaf, cancelled not set, logs an Error entry and returns undefined.
C23_NoLeafLogsError ==
    [][(Runs("renderFile") /\ ret'.file # "media"
          /\ batchStarted /\ renderLeaf = 0 /\ ~cancelled)
         => /\ ret'.val = "absent"
            /\ \E i \in 1..Len(callLog') : callLog'[i].level = "ERROR"]_vars

IsPrefix(s, t) == Len(s) <= Len(t) /\ SubSeq(t, 1, Len(s)) = s

\* The lines a step appends to the log.
Appended == SubSeq(callLog', Len(callLog) + 1, Len(callLog'))

\* C15: the cumulative log is append-only: every step leaves the log it
\* found as a prefix of the log it leaves, and every call of log, warning,
\* error or progress appends its entry, whatever the verbosity and whether
\* or not a batch is active.
C15_LogAppendOnly ==
    [][/\ IsPrefix(callLog, callLog')
       /\ \A kind \in LogKinds :
             (call.pc = "idle" /\ ret'.op = kind) =>
                 \E i \in 1..Len(Appended) :
                     Appended[i] = Entry(LevelOf(kind), "called")]_vars

\* An entry was appended with the verbosity at "none" and no batch active,
\* and another with a batch active.
C15_Witness ==
    /\ wholeLog /\ settingsLoaded /\ logLevel = "none"
    /\ ret.op = "log"
    /\ batchStarted
    /\ Len(callLog) = MaxLog
    /\ callLog[1] = Entry("WARNING", "called")
    /\ callLog[MaxLog] = Entry("INFO", "called")

\* An Error entry is among the lines the step appends.
ErrorAppended == \E i \in 1..Len(Appended) : Appended[i].level = "ERROR"

\* C24: a markdown render that waits for the rendered or the computed flag
\* of a section, with no cancellation, goes on waiting, or goes on with that
\* section when the flag is true, or (timeout) returns undefined with an
\* Error entry logged; it never goes on to another section.
C24_SectionTimeoutFails ==
    [][(call.pc \in {"md_rendered", "md_computed"} /\ ~cancelled /\ renderLeaf # 0
          /\ call' # call)
         => \/ call'.pc = call.pc /\ call'.sec = call.sec
            \/ /\ call'.pc = IF call.pc = "md_rendered" THEN "md_measure" ELSE "md_post"
               /\ call'.sec = call.sec
            \/ /\ ret'.op \in Renders /\ ret'.val = "absent" /\ ret'.why = "timeout"
               /\ call'.pc = "idle"
               /\ ErrorAppended]_vars

\* A section's wait timed out in a batch begun by beginBatch, in a document
\* of several sections.
C24_Witness ==
    /\ ret.op \in Renders /\ ret.val = "absent" /\ ret.why = "timeout"
    /\ sections > 1
    /\ ~ret.lone /\ batchStarted /\ ~cancelled /\ renderLeaf # 0
    /\ Len(callLog) >= 1 /\ callLog[Len(callLog)].level = "ERROR"

\* C25: a markdown render that waits for the transclusions or for the plugin
\* blocks of a section, with no cancellation, does not return in that step:
\* it goes on waiting or goes on (on a timeout too) with the plugin wait, the
\* next section or the end of the section loop; the step appends nothing
\* but Warning entries and leaves errorOccurred as it is.
C25_SettleTimeoutGoesOn ==
    [][(call.pc \in {"md_transcl", "md_plugin"} /\ ~cancelled /\ renderLeaf # 0
          /\ call' # call)
         => /\ ret' = NoRet
            /\ \/ call'.pc = call.pc /\ call'.sec = call.sec
               \/ call'.pc = "md_plugin" /\ call.pc = "md_transcl" /\ call'.sec = call.sec
               \/ call'.pc = "md_render" /\ call'.sec = call.sec + 1
               \/ call'.pc = "md_all" /\ call'.sec = call.sec /\ call.sec = sections
            /\ \A i \in 1..Len(Appended) : Appended[i].level = "WARNING"
            /\ errorInBatch' = errorInBatch]_vars

\* A document of several sections was rendered to content in a batch, with
\* a Warning of a settle timeout and no error marked.
C25_Witness ==
    /\ ret.op \in Renders /\ ret.val = "result" /\ ~ret.lone
    /\ sections > 1 /\ batchStarted /\ ~errorInBatch
    /\ \E i \in 1..Len(callLog) : callLog[i].level = "WARNING"

\* C26: the first section's render is invoked after the parse, and the
\* render of section i+1 only after section i was rendered, its rendered
\* flag read as true, measured and its computed flag read as true; the
\* measure of a section is invoked after its render only, and its
\* postProcess after its measure only.
C26_SectionsInOrder ==
    [][/\ (call'.pc = "md_render" /\ call' # call)
            => \/ call.pc = "md_parse" /\ call'.sec = 1
               \/ /\ call.pc \in {"md_post", "md_transcl", "md_plugin"}
                  /\ call'.sec = call.sec + 1
                  /\ call.seen = {"rendered", "computed"}
       /\ (call'.pc \in {"md_rendered", "md_measure"} /\ call' # call)
            => call.pc \in {"md_render", "md_rendered"} /\ call'.sec = call.sec
       /\ (call'.pc \in {"md_computed", "md_post"} /\ call' # call)
            => call.pc \in {"md_measure", "md_computed"} /\ call'.sec = call.sec
      ]_vars

\* The render of the second section of a document is awaited.
C26_Witness ==
    call.pc = "md_render" /\ call.sec = 2 /\ call.seen = {}

\* C27: when a markdown render returns from the section loop or after it,
\* whatever the value, no callout it unfolded is left unfolded.
C27_CalloutsFoldedBack ==
    [][(call.pc \in {"md_render", "md_rendered", "md_measure", "md_computed",
                     "md_post", "md_transcl", "md_plugin", "md_all"}
          /\ ret'.op \in Renders)
         => ~unfolded']_vars

\* C28: a window-closed signal that arrives while a batch is active leaves
\* the session inactive, without render leaf and cancelled; a signal that
\* arrives when cancelled is set already changes nothing of the session.
C28_WindowClosedCancels ==
    [][WindowClosed
         => /\ batchStarted => (~batchStarted' /\ renderLeaf' = 0 /\ cancelled')
            /\ cancelled
                 => /\ callLog' = Fresh.callLog
                    /\ UNCHANGED <<batchStarted, cancelled, errorInBatch, renderLeaf,
                                   electronWindow, loadingContainer, progress,
                                   pendingReports, closeHandlers, leafCount, parent,
                                   detachCount, wrapper>>]_vars

\* The window was closed during a batch that was rendering a document.
C28_Witness ==
    /\ cancelled /\ ~batchStarted /\ renderLeaf = 0
    /\ call.pc # "idle" /\ closeHandlers # {}

\* C29: errorOccurred becomes true only in a step that reports a fatal
\* error, and an endBatch on an active batch with a render leaf and no fatal
\* error reported detaches the leaf.
C29_OnlyFatalMarksBatch ==
    [][/\ (~errorInBatch /\ errorInBatch') => fatalInBatch'
       /\ (Runs("endBatch") /\ batchStarted /\ renderLeaf # 0 /\ ~fatalInBatch)
            => detachCount' = detachCount + 1]_vars

\* C30: once cancelled is set, the lines one API call appends to the log
\* hold the Info line "cancelled" at most once, however many cancellation
\* checks the call makes, and the step in which a render returns as
\* cancelled appends no Error entry.
C30_CancelledLoggedOnce ==
    [][/\ cancelled'
            => Cardinality({i \in 1..Len(callLog') : callLog'[i].msg = "cancelled"}) <= 1
       /\ (ret'.op \in Renders /\ ret'.why = "cancelled")
            => LET lines == IF call.pc = "idle" THEN callLog' ELSE Appended
               IN  \A i \in 1..Len(lines) : lines[i].level # "ERROR"]_vars

\* C31: with the settings loaded, the entry of a call of log is shown at
\* level "all" only, of warning at "warning" and "all", of a non-fatal error
\* at "error", "warning" and "all", of a fatal error at every level; a level
\* that shows Info shows Warning, and one that shows Warning shows Error.
C31_VerbosityThreshold ==
    /\ settingsLoaded
         => /\ ret.op = "log" => (ret.val = "shown" <=> logLevel = "all")
            /\ ret.op = "warning"
                 => (ret.val = "shown" <=> logLevel \in {"warning", "all"})
            /\ ret.op = "error"
                 => (ret.val = "shown" <=> logLevel \in {"error", "warning", "all"})
            /\ ret.op = "fatal" => ret.val = "shown"
    /\ \A level \in LogLevels :
          /\ emitted("log", TRUE, level) => emitted("warning", TRUE, level)
          /\ emitted("warning", TRUE, level) => emitted("error", TRUE, level)
          /\ emitted("error", TRUE, level) => emitted("fatal", TRUE, level)

\* A warning was shown at level "all", after entries were logged in a batch.
C31_Witness ==
    /\ wholeLog /\ settingsLoaded /\ logLevel = "all" /\ batchStarted
    /\ ret.op = "warning" /\ ret.val = "shown"
    /\ Len(callLog) >= 2

\* C32: in the tree built, no block that marks the footer boundary, itself
\* a heading or not, and no block that follows one, is below a heading that
\* precedes it.
C32_WalkStopsAtFooter ==
    doc.pass = 2 =>
        LET t == doc.built  b == doc.blocks
        IN  \A x \in 1..Len(b) : \A y \in x + 1 .. Len(b) :
                (getHeaderEl(b[x]) /\ b[y].footer)
                    => Below(t, x) \cap (y .. Len(b)) = {}

\* C33: when a render call that found a batch active returns a rendered
\* document, the session is still active on the render leaf the call found
\* and cancelled is not set.
C33_SuccessKeepsBatch ==
    (ret.op \in Renders /\ ret.val = "result" /\ ret.why = "ok" /\ ~ret.lone)
        => /\ batchStarted /\ ~cancelled
           /\ renderLeaf # 0 /\ renderLeaf = ret.leaf

\* A markdown string was rendered in a batch opened by beginBatch.
C33_Witness ==
    /\ ret.op = "renderMarkdown" /\ ret.val = "result" /\ ~ret.lone
    /\ batchOpener = "beginBatch" /\ batchStarted /\ renderLeaf = ret.leaf

\* C34: a window-closed signal of a window other than the one of the
\* active batch, delivered to a handler that is still subscribed, leaves the
\* batch active, its render leaf in place and cancelled unset.
C34_StaleSignalIgnored ==
    [][(/\ batchStarted /\ ~cancelled
        /\ \E w \in closeHandlers \ {electronWindow} :
              /\ Set(windowClosed(Fresh, w))
              /\ ret' = NoRet
              /\ UNCHANGED call)
         => UNCHANGED <<batchStarted, cancelled, renderLeaf>>]_vars

\* C35: when the deferred part of a fatal error report runs in a batch in
\* which no fatal error was reported (the report is of an earlier batch),
\* the render leaf of the batch stays in place.
C35_LateReportSparesNewBatch ==
    [][(batchStarted /\ ~fatalInBatch /\ renderLeaf # 0 /\ ReportContinues)
         => renderLeaf' = renderLeaf]_vars

\* C36: in runs that perform the same operations and differ in the
\* verbosity only, errorOccurred is the same, and so is what endBatch has
\* done with the render leaf (detached or left open).
C36_OutcomeIgnoresVerbosity ==
    \A l1, l2 \in DOMAIN twin :
        /\ twin[l1].errorInBatch = twin[l2].errorInBatch
        /\ twin[l1].detachCount = twin[l2].detachCount
        /\ twin[l1].progress = twin[l2].progress

\* C37: whenever no API call is in flight and the session is inactive,
\* renderLeaf and electronWindow are undefined.
C37_InactiveHoldsNoLeaf ==
    (call.pc = "idle" /\ ~batchStarted) => (renderLeaf = 0 /\ electronWindow = 0)

\* A batch with an error reported was ended: its window is left open and
\* the session holds no handle of it.
C37_Witness ==
    /\ call.pc = "idle" /\ ~batchStarted /\ errorInBatch
    /\ leafCount > 0 /\ detachCount = 0 /\ ret.op = "endBatch"
    /\ renderLeaf = 0 /\ electronWindow = 0

\* C38: once a waitUntil call has resolved, true or false, nothing of it
\* changes any more: its condition is not evaluated again and its result
\* stays; the interval is cleared in the step that resolves.
C38_ResolvedWaitIsOver ==
    [][/\ wait.state \in {"true", "false"} => wait' = wait
       /\ wait'.state \in {"true", "false"} => ~wait'.armed]_vars

\* A wait resolved true at a tick after a first tick that found the
\* condition false.
C38_Witness ==
    /\ wait.state = "true" /\ wait.ticks >= 2 /\ ~wait.armed

\* C39: a renderFile / renderMarkdown call in flight leads to a return of
\* a render call with a result or with undefined.
C39_RenderReturns ==
    (call.op \in Renders /\ call.pc # "idle")
        ~> (ret.op \in Renders /\ ret.val \in {"result", "absent"})

\* C40: once getWebpageData(url) has loaded data for a url, a later
\* getWebpageData(url) or getWebpageDataCached(url) with that url returns
\* data from the cache and issues no fetch, also for a url that ends in
\* ".html"; and a load that fails leaves the cache as it was.
C40_LoadedIsCached ==
    [][/\ \A url \in Urls :
             (url \in site.loaded
                 /\ (site' = getWebpageData(site, url)
                        \/ site' = getWebpageDataCached(site, url)))
                 => /\ site'.answer.url = url
                    /\ site'.answer.val \in Datas
                    /\ site'.inFlight = site.inFlight
       /\ \A i \in DOMAIN site.inFlight, outcome \in Failures :
             site' = getWebpageDataRest(site, i, outcome)
                 => site'.cachedMetadata = site.cachedMetadata]_vars

TypeOK ==
    /\ batchStarted \in BOOLEAN /\ cancelled \in BOOLEAN /\ errorInBatch \in BOOLEAN
    /\ renderLeaf \in 0..MaxLeaves /\ electronWindow \in 0..MaxLeaves
    /\ loadingContainer \in 0..MaxLeaves
    /\ leafCount \in 0..MaxLeaves
    /\ parent \in BOOLEAN /\ closeHandlers \subseteq Leaves /\ wrapper \in BOOLEAN
    /\ detachCount \in 0..2

====
